---- MODULE Spec2Model ----
(***************************************************************************)
(* A model of the SEQ suburb transit metrics pipeline (src/main.py):       *)
(*   - process_route_to_parquet : segment derivation for one route slice   *)
(*   - valid_week / valid_gtfs_data : the service window and the joins     *)
(*   - the __main__ block : pool dispatch, loading, aggregation, cleanup   *)
(*                                                                         *)
(* Tables (DataFrames) are sets of records when row order is irrelevant    *)
(* and sequences of records where the code iterates over them in order.    *)
(* Durations are integer seconds; travel_time is kept in hundredths of a   *)
(* minute, which is exactly what round(x, 2) of a minute value can hold.   *)
(* Dates are day numbers, day 0 being a Monday, so weekday(d) = d % 7 as   *)
(* datetime.weekday() has it (Monday = 0).                                 *)
(***************************************************************************)
EXTENDS Integers, Sequences, FiniteSets

VARIABLES
    pc,                       \* position of the run being modelled
    \* ---- process_route_to_parquet (one worker call) ----
    df,                       \* the route slice: trip_id -> rows in feed order
    records,                  \* the segment records the call built
    out_path,                 \* its return value: a path, or None
    \* ---- valid_gtfs_data ----
    today,                    \* datetime.today(): <<day, time of day>>
    calendar,                 \* calendar.txt: service_id -> entry
    routes,                   \* routes.txt: route_id -> route_short_name
    calendar_df,              \* the calendar entries kept
    trips_df,                 \* trips joined to the kept services
    routes_df,                \* routes joined to the kept trips (per-trip table)
    routes_weekly_status_df,  \* the Route Weekly Status table kept
    stop_times_df,            \* the table valid_gtfs_data returns
    \* ---- __main__ ----
    cpu,                      \* cpu_count()
    args_list,                \* route_short_name -> slice, one per route group
    stop_suburb,              \* stop_id -> the suburb polygon holding it, or None
    num_workers,
    pending,                  \* tasks not yet handed to a worker
    running,                  \* tasks a worker is processing
    parquet_files,            \* worker results, in completion order
    files,                    \* the output directory: path -> rows of the spill file
    df_final,                 \* the report table
    csv_written,              \* transit_summary.csv exists
    cleanup_i,                \* position of the cleanup loop in parquet_files
    error                     \* the exception that ended the run, or "none"

segVars == <<df, records, out_path>>
calVars == <<today, calendar, routes, calendar_df, trips_df, routes_df,
             routes_weekly_status_df, stop_times_df>>
mainVars == <<cpu, args_list, stop_suburb, num_workers, pending, running,
              parquet_files, files, df_final, csv_written, cleanup_i, error>>
vars == <<pc, segVars, calVars, mainVars>>

None == "None"      \* Python's None
NaN == "NaN"        \* pandas' missing value

Max(a, b) == IF a >= b THEN a ELSE b
Min(a, b) == IF a <= b THEN a ELSE b
Range(s) == {s[n] : n \in DOMAIN s}

\* ---- bounds of the model ----
MaxStops == 3       \* stop visits per trip
MaxTrips == 2       \* trips per route slice
MaxRows == 4        \* stop-time rows per route slice
MaxCpu == 4         \* values of cpu_count() explored
MaxRoutes == 3      \* route short names in the table valid_gtfs_data returns
MaxToday == 7       \* days on which the run may start, counted from a Monday

(***************************************************************************)
(* Segment derivation: process_route_to_parquet                            *)
(***************************************************************************)

WeekdaysOnly == <<1, 1, 1, 1, 1, 0, 0>>     \* monday .. sunday
WednesdayOnly == <<0, 0, 1, 0, 0, 0, 0>>
SaturdayOnly == <<0, 0, 0, 0, 0, 1, 0>>
WeekendOnly == <<0, 0, 0, 0, 0, 1, 1>>
NoDay == <<0, 0, 0, 0, 0, 0, 0>>

\* pd.to_timedelta of a GTFS "HH:MM:SS" string, here <<HH, MM, SS>>: seconds.
to_timedelta(t) == t[1] * 3600 + t[2] * 60 + t[3]

\* round(x, 2) of x = secs / 60 minutes, in hundredths of a minute. 100 * secs / 60
\* = 5 * secs / 3 is never halfway between two integers, so the nearest is unique.
round2(secs) == (10 * secs + 3) \div 6

\* The difference alone, as it would be without the clamp.
NoClampTravelTime(from_row, to_row) ==
    to_timedelta(to_row.arrival_time) - to_timedelta(from_row.departure_time)
\* max(to_row['arrival_time'] - from_row['departure_time'], pd.Timedelta(0))
travel_time(from_row, to_row) ==
    Max(to_timedelta(to_row.arrival_time) - to_timedelta(from_row.departure_time), 0)

\* trip_df.sort_values('stop_sequence').reset_index(drop=True)
RECURSIVE sort_values(_)
sort_values(rows) ==
    IF rows = <<>> THEN <<>>
    ELSE LET m == CHOOSE n \in DOMAIN rows :
                      \A k \in DOMAIN rows :
                          \/ rows[n].stop_sequence < rows[k].stop_sequence
                          \/ rows[n].stop_sequence = rows[k].stop_sequence /\ n <= k
             rest == [k \in 1..(Len(rows) - 1) |->
                          IF k < m THEN rows[k] ELSE rows[k + 1]]
         IN <<rows[m]>> \o sort_values(rest)

\* The record appended for positions i < j of a sorted trip.
Record(route, trip_id, from_row, to_row) ==
    [from_stop_id |-> from_row.stop_id,
     to_stop_id |-> to_row.stop_id,
     pickup_from |-> from_row.pickup_type,
     drop_off_to |-> to_row.drop_off_type,
     trip_id |-> trip_id,
     route_short_name |-> route,
     route_type |-> from_row.route_type,
     travel_time |-> round2(travel_time(from_row, to_row)),
     days |-> from_row.days,
     weekday |-> from_row.weekday,
     weekend |-> from_row.weekend]

\* An inner loop that would start at the from-row itself: range(i, len(trip_df)).
InnerFromSelf(i) == i
\* range(i + 1, len(trip_df)), 0-based in the code and 1-based here.
InnerStart(i) == i + 1

RECURSIVE InnerLoop(_, _, _, _, _)
InnerLoop(route, trip_id, trip_df, i, j) ==
    IF j > Len(trip_df) THEN <<>>
    ELSE <<Record(route, trip_id, trip_df[i], trip_df[j])>>
         \o InnerLoop(route, trip_id, trip_df, i, j + 1)

RECURSIVE OuterLoop(_, _, _, _)
OuterLoop(route, trip_id, trip_df, i) ==
    IF i > Len(trip_df) THEN <<>>
    ELSE InnerLoop(route, trip_id, trip_df, i, InnerStart(i))
         \o OuterLoop(route, trip_id, trip_df, i + 1)

\* for trip_id, trip_df in df.groupby('trip_id'): groups come in key order.
RECURSIVE TripLoop(_, _, _)
TripLoop(route, d, ids) ==
    IF ids = {} THEN <<>>
    ELSE LET t == CHOOSE x \in ids : \A y \in ids : x <= y
         IN OuterLoop(route, t, sort_values(d[t]), 1)
            \o TripLoop(route, d, ids \ {t})

\* process_route_to_parquet(route, df, output_folder): the records built and the
\* value returned, None or the path of the spill file (named after the route).
process_route_to_parquet(route, d) ==
    LET recs == TripLoop(route, d, DOMAIN d)
    IN [records |-> recs,
        ret |-> IF recs = <<>> THEN None ELSE route]

\* result.to_parquet(out_path): the directory with the call's spill file written,
\* when it writes one. A directory maps each path to the file's rows.
Put(dir, path, rows) ==
    [x \in DOMAIN dir \cup {path} |-> IF x = path THEN rows ELSE dir[x]]
to_parquet(dir, result) ==
    IF result.ret = None THEN dir ELSE Put(dir, result.ret, result.records)

\* ---- the route slices explored ----

\* <<arrival_time, departure_time>> of a stop visit, as GTFS "HH:MM:SS" strings.
TimePairs ==
    {<< <<8, 0, 0>>, <<8, 0, 0>> >>,
     << <<8, 10, 0>>, <<8, 12, 0>> >>,
     << <<8, 20, 0>>, <<8, 20, 0>> >>,
     << <<24, 0, 10>>, <<24, 0, 40>> >>}

\* One stop-time row joined with its route and trip columns (valid_gtfs_data's
\* output row), for a route of type 3 running every weekday.
StopTimeRow(stop_id, stop_sequence, times) ==
    [stop_id |-> stop_id,
     stop_sequence |-> stop_sequence,
     arrival_time |-> times[1],
     departure_time |-> times[2],
     pickup_type |-> 0,
     drop_off_type |-> 0,
     route_type |-> 3,
     days |-> WeekdaysOnly,
     weekday |-> 1,
     weekend |-> 0]

\* A slice of R rows laid out trip after trip (trip ids 1, 2, ... in file order):
\* row i belongs to trip trip_of[i], has stop sequence number sq[i] and the
\* times tp[i], and its stop is its position among the rows of its trip.
RowsOfTrip(R, trip_of, t) == {i \in 1..R : trip_of[i] = t}
WellFormedTrips(R, trip_of) ==
    /\ trip_of[1] = 1
    /\ \A i \in 1..(R - 1) : trip_of[i + 1] \in {trip_of[i], trip_of[i] + 1}
    /\ \A t \in 1..MaxTrips : Cardinality(RowsOfTrip(R, trip_of, t)) <= MaxStops
\* The stop sequence numbers of a trip with k rows are 1..k in any order.
WellFormedSequence(R, trip_of, sq) ==
    \A i \in 1..R :
        /\ sq[i] <= Cardinality(RowsOfTrip(R, trip_of, trip_of[i]))
        /\ \A j \in 1..R : (j # i /\ trip_of[j] = trip_of[i]) => sq[j] # sq[i]
BuildSlice(R, trip_of, sq, tp) ==
    [t \in 1..trip_of[R] |->
        LET rows == RowsOfTrip(R, trip_of, t)
            first == CHOOSE i \in rows : \A j \in rows : i <= j
        IN [n \in 1..Cardinality(rows) |->
               StopTimeRow(n, sq[first + n - 1], tp[first + n - 1])]]

\* ---- the variables of the parts a specification leaves alone ----
SegIdle == df = <<>> /\ records = <<>> /\ out_path = None
CalIdle ==
    /\ today = <<0, 0>> /\ calendar = <<>> /\ routes = <<>>
    /\ calendar_df = {} /\ trips_df = {} /\ routes_df = {}
    /\ routes_weekly_status_df = {} /\ stop_times_df = <<>>
MainIdle ==
    /\ cpu = 0 /\ args_list = <<>> /\ stop_suburb = <<>> /\ num_workers = 0
    /\ pending = {} /\ running = {} /\ parquet_files = <<>> /\ files = <<>>
    /\ df_final = {} /\ csv_written = FALSE /\ cleanup_i = 0 /\ error = "none"

\* ---- one worker call on one route slice ----
InitSeg ==
    /\ pc = "call"
    /\ \E R \in 1..MaxRows :
          \E trip_of \in [1..R -> 1..MaxTrips] :
              /\ WellFormedTrips(R, trip_of)
              /\ \E sq \in [1..R -> 1..MaxStops] :
                    /\ WellFormedSequence(R, trip_of, sq)
                    /\ \E tp \in [1..R -> TimePairs] :
                          df = BuildSlice(R, trip_of, sq, tp)
    /\ records = <<>> /\ out_path = None
    /\ CalIdle /\ MainIdle

\* process_route_wrapper((route, df, output_dir)) runs to its return.
ProcessRoute ==
    /\ pc = "call"
    /\ LET r == process_route_to_parquet("R1", df)
       IN /\ records' = r.records
          /\ out_path' = r.ret
          /\ files' = to_parquet(files, r)
    /\ pc' = "returned"
    /\ UNCHANGED <<df, calVars, cpu, args_list, stop_suburb, num_workers, pending,
                   running, parquet_files, df_final, csv_written, cleanup_i, error>>

NextSeg == ProcessRoute
SpecSeg == InitSeg /\ [][NextSeg]_vars

\* ---- properties of segment derivation ----

SegmentsOfTrip(t) == {n \in DOMAIN records : records[n].trip_id = t}
SegmentsBetween(t, a, b) ==
    {n \in SegmentsOfTrip(t) :
        /\ records[n].from_stop_id = df[t][a].stop_id
        /\ records[n].to_stop_id = df[t][b].stop_id}

\* C1: once the call has returned, every trip of the slice with k stop visits has
\* exactly k(k-1)/2 segments (none when k <= 1): exactly one for each pair of
\* visits where the first has the smaller stop sequence number, none for any
\* other pair (the same visit twice, or a later visit before an earlier one).
C1_SegmentsPerTrip ==
    pc = "returned" =>
        \A t \in DOMAIN df :
            LET k == Len(df[t])
            IN /\ Cardinality(SegmentsOfTrip(t)) = (k * (k - 1)) \div 2
               /\ \A a, b \in 1..k :
                      Cardinality(SegmentsBetween(t, a, b)) =
                          IF df[t][a].stop_sequence < df[t][b].stop_sequence
                          THEN 1 ELSE 0

\* A slice with a three-stop trip whose rows are out of stop-sequence order and a
\* single-stop trip has been processed: three segments, all of the first trip.
C1_Witness ==
    /\ pc = "returned"
    /\ \E t, u \in DOMAIN df :
          /\ Len(df[t]) = 3 /\ Len(df[u]) = 1
          /\ df[t][1].stop_sequence > df[t][2].stop_sequence
          /\ Cardinality(SegmentsOfTrip(t)) = 3
          /\ SegmentsOfTrip(u) = {}

\* The visit of trip t at stop s, and arrival[j] - departure[i] in seconds for the
\* visits a segment joins.
VisitAt(t, s) == df[t][CHOOSE n \in DOMAIN df[t] : df[t][n].stop_id = s]
SegmentDiff(n) ==
    to_timedelta(VisitAt(records[n].trip_id, records[n].to_stop_id).arrival_time)
    - to_timedelta(VisitAt(records[n].trip_id, records[n].from_stop_id).departure_time)

\* Scenario 1: A(dep 08:00), B(arr 08:10, dep 08:12), C(arr 08:20).
Scenario1 ==
    <<StopTimeRow(1, 1, << <<8, 0, 0>>, <<8, 0, 0>> >>),
      StopTimeRow(2, 2, << <<8, 10, 0>>, <<8, 12, 0>> >>),
      StopTimeRow(3, 3, << <<8, 20, 0>>, <<8, 20, 0>> >>)>>

\* C2 as stated: every segment's travel time is exactly arrival[j] - departure[i]
\* when that is non-negative and 0 otherwise. travel_time is in hundredths of a
\* minute and the difference in seconds, so equality is 60 * tt = 100 * diff.
C2_ExactDifference ==
    pc = "returned" =>
        \A n \in DOMAIN records :
            60 * records[n].travel_time = 100 * Max(SegmentDiff(n), 0)

\* C2 (amended): every segment's travel time is arrival[j] - departure[i] in
\* minutes rounded to two decimal places (so within 0.005 minute of it) when that
\* difference is non-negative, and 0 otherwise; it is never negative; and the
\* stops of Scenario 1 give A->B 10, A->C 20 and B->C 8 minutes.
C2_RoundedClampedDifference ==
    pc = "returned" =>
        /\ \A n \in DOMAIN records :
              LET tt == records[n].travel_time
                  diff == SegmentDiff(n)
              IN /\ tt >= 0
                 /\ diff < 0 => tt = 0
                 /\ diff >= 0 => (60 * tt - 100 * diff) \in -30..30
        /\ df = <<Scenario1>> =>
              [n \in DOMAIN records |->
                  <<records[n].from_stop_id, records[n].to_stop_id,
                    records[n].travel_time>>]
              = << <<1, 2, 1000>>, <<1, 3, 2000>>, <<2, 3, 800>> >>

\* One processed trip has a segment whose arrival precedes the departure (clamped
\* to 0) and a segment whose positive difference is not a whole number of
\* hundredths of a minute (rounded).
C2_Witness ==
    /\ pc = "returned"
    /\ \E n, m \in DOMAIN records :
          /\ SegmentDiff(n) < 0 /\ records[n].travel_time = 0
          /\ SegmentDiff(m) > 0
          /\ 60 * records[m].travel_time # 100 * SegmentDiff(m)

(***************************************************************************)
(* The service window: valid_week and valid_gtfs_data                      *)
(***************************************************************************)

\* A datetime is <<day, time of day>>, compared as Python compares datetimes.
DtLeq(a, b) == a[1] < b[1] \/ (a[1] = b[1] /\ a[2] <= b[2])
\* x + timedelta(days=n)
PlusDays(x, n) == <<x[1] + n, x[2]>>
\* x.strftime("%Y-%m-%d") keeps the date only; pd.to_datetime of it is midnight.
strftime(x) == x[1]
to_datetime(d) == <<d, 0>>
\* datetime.weekday(): Monday is 0.
weekday_of(x) == x[1] % 7

\* valid_week(): the dates of the Monday on or after today and of its Sunday.
DaysToMonday(x) == (7 - weekday_of(x)) % 7
valid_week(x) ==
    LET next_monday == PlusDays(x, DaysToMonday(x))
        next_sunday == PlusDays(next_monday, 6)
    IN [start_date |-> strftime(next_monday), end_date |-> strftime(next_sunday)]

\* The overlap test with a strict second comparison: end_date > start_date.
EndsAfterStart(e, start_date, end_date) ==
    /\ DtLeq(to_datetime(e.start_date), end_date)
    /\ ~DtLeq(to_datetime(e.end_date), start_date)
\* (calendar_df["start_date"] <= end_date) & (calendar_df["end_date"] >= start_date)
InWindow(e, start_date, end_date) ==
    /\ DtLeq(to_datetime(e.start_date), end_date)
    /\ DtLeq(start_date, to_datetime(e.end_date))

\* trips.txt, and stop_times.txt in file order: trip 1 of service S1 on route r1
\* calls at A and B, trip 2 of service S2 on route r2 calls at B, C and A.
TripsTxt ==
    {[trip_id |-> 1, route_id |-> "r1", service_id |-> "S1"],
     [trip_id |-> 2, route_id |-> "r2", service_id |-> "S2"]}
StopTimesTxt ==
    <<[trip_id |-> 1, stop_id |-> "A", stop_sequence |-> 1,
       arrival_time |-> <<8, 0, 0>>, departure_time |-> <<8, 0, 0>>,
       pickup_type |-> 0, drop_off_type |-> 0],
      [trip_id |-> 2, stop_id |-> "C", stop_sequence |-> 2,
       arrival_time |-> <<9, 10, 0>>, departure_time |-> <<9, 12, 0>>,
       pickup_type |-> 0, drop_off_type |-> 0],
      [trip_id |-> 1, stop_id |-> "B", stop_sequence |-> 2,
       arrival_time |-> <<8, 10, 0>>, departure_time |-> <<8, 12, 0>>,
       pickup_type |-> 0, drop_off_type |-> 0],
      [trip_id |-> 2, stop_id |-> "B", stop_sequence |-> 1,
       arrival_time |-> <<9, 0, 0>>, departure_time |-> <<9, 0, 0>>,
       pickup_type |-> 0, drop_off_type |-> 0],
      [trip_id |-> 2, stop_id |-> "A", stop_sequence |-> 3,
       arrival_time |-> <<9, 20, 0>>, departure_time |-> <<9, 20, 0>>,
       pickup_type |-> 0, drop_off_type |-> 0]>>

\* calendar_df after the window filter: the kept entries' service_id and flags.
FilterCalendar(cal, start_date, end_date) ==
    {[service_id |-> s, days |-> cal[s].days] :
        s \in {x \in DOMAIN cal : InWindow(cal[x], start_date, end_date)}}

\* trips_df.merge(calendar_df, on="service_id", how="inner")
MergeTrips(cdf) ==
    {[trip_id |-> t.trip_id, route_id |-> t.route_id, service_id |-> t.service_id,
      days |-> c.days] :
        <<t, c>> \in {x \in TripsTxt \X cdf : x[1].service_id = x[2].service_id}}

\* routes_df.merge(trips_df, on="route_id", how="inner"); every route is a bus
\* route (route_type 3).
MergeRoutes(rts, tdf) ==
    {[route_id |-> t.route_id, route_short_name |-> rts[t.route_id],
      route_type |-> 3, trip_id |-> t.trip_id, service_id |-> t.service_id,
      days |-> t.days] :
        t \in {x \in tdf : x.route_id \in DOMAIN rts}}

\* routes_df.groupby("route_short_name")[days].max(): per short name, per day,
\* the largest flag over its trips.
DaysMax(rdf, name) ==
    [d \in 1..7 |->
        LET flags == {r.days[d] : r \in {x \in rdf : x.route_short_name = name}}
        IN CHOOSE m \in flags : \A f \in flags : f <= m]

\* df[cols].all(axis=1).astype(int) and (df[cols].sum(axis=1) > 0).astype(int)
AllOf(v, cols) == IF \A d \in cols : v[d] # 0 THEN 1 ELSE 0
AnyOf(v, cols) == IF \E d \in cols : v[d] # 0 THEN 1 ELSE 0
WeekdayCols == 1..5
WeekendCols == 6..7

\* The weekday/weekend flags computed on the grouped table (lines 94-99).
WeeklyStatus(rdf) ==
    {[route_short_name |-> name,
      weekday |-> AllOf(DaysMax(rdf, name), WeekdayCols),
      weekend |-> AllOf(DaysMax(rdf, name), WeekendCols)] :
        name \in {r.route_short_name : r \in rdf}}

\* The rows kept: (weekday == 1) | (weekend == 1).
FilterStatus(status) == {r \in status : r.weekday = 1 \/ r.weekend = 1}

\* The left merge of the status onto routes_df (NaN flags where no status row
\* matches), then both flag columns overwritten from the row's own day columns.
MergeStatus(rdf, status) ==
    {[route_id |-> r.route_id, route_short_name |-> r.route_short_name,
      route_type |-> r.route_type, trip_id |-> r.trip_id,
      service_id |-> r.service_id, days |-> r.days,
      weekday |-> AnyOf(r.days, WeekdayCols),
      weekend |-> AnyOf(r.days, WeekendCols)] : r \in rdf}

\* stop_times_df.merge(routes_df, on="trip_id", how="inner"), in the order of
\* the stop_times rows.
RECURSIVE MergeStopTimes(_, _)
MergeStopTimes(st, rdf) ==
    IF st = <<>> THEN <<>>
    ELSE LET x == Head(st)
             hit == {r \in rdf : r.trip_id = x.trip_id}
         IN (IF hit = {} THEN <<>>
             ELSE LET r == CHOOSE y \in hit : TRUE
                  IN <<[trip_id |-> x.trip_id, stop_id |-> x.stop_id,
                        stop_sequence |-> x.stop_sequence,
                        arrival_time |-> x.arrival_time,
                        departure_time |-> x.departure_time,
                        pickup_type |-> x.pickup_type,
                        drop_off_type |-> x.drop_off_type,
                        route_id |-> r.route_id,
                        route_short_name |-> r.route_short_name,
                        route_type |-> r.route_type,
                        service_id |-> r.service_id, days |-> r.days,
                        weekday |-> r.weekday, weekend |-> r.weekend]>>)
            \o MergeStopTimes(Tail(st), rdf)

\* ---- the feeds and start days explored ----
DateChoices == {0, 6, 7, 13, 14}
DayVectors == {WednesdayOnly, SaturdayOnly, WeekdaysOnly, WeekendOnly, NoDay}
CalendarEntries ==
    {e \in [days : DayVectors, start_date : DateChoices, end_date : DateChoices] :
        e.start_date <= e.end_date}

InitCal ==
    /\ pc = "feed"
    /\ today \in (0..MaxToday) \X {0, 1}
    /\ calendar \in [{"S1", "S2"} -> CalendarEntries]
    /\ routes \in {[r1 |-> "R1", r2 |-> n] : n \in {"R1", "R2"}}
    /\ calendar_df = {} /\ trips_df = {} /\ routes_df = {}
    /\ routes_weekly_status_df = {} /\ stop_times_df = <<>>
    /\ SegIdle /\ MainIdle

\* valid_gtfs_data() runs to its return.
ValidGtfsData ==
    /\ pc = "feed"
    /\ LET date_range == valid_week(today)
           start_date == to_datetime(date_range.start_date)
           end_date == to_datetime(date_range.end_date)
           cdf == FilterCalendar(calendar, start_date, end_date)
           tdf == MergeTrips(cdf)
           rdf == MergeRoutes(routes, tdf)
           status == FilterStatus(WeeklyStatus(rdf))
           rdf2 == MergeStatus(rdf, status)
       IN /\ calendar_df' = cdf
          /\ trips_df' = tdf
          /\ routes_weekly_status_df' = status
          /\ routes_df' = rdf2
          /\ stop_times_df' = MergeStopTimes(StopTimesTxt, rdf2)
    /\ pc' = "valid"
    /\ UNCHANGED <<today, calendar, routes, segVars, mainVars>>

NextCal == ValidGtfsData
SpecCal == InitCal /\ [][NextCal]_vars

\* grouped_routes / args_list of __main__: the table split by route_short_name,
\* each slice holding its trips' rows in table order.
GroupSlice(table, name) ==
    LET rows == SelectSeq(table, LAMBDA x : x.route_short_name = name)
    IN [t \in {rows[n].trip_id : n \in DOMAIN rows} |->
           SelectSeq(rows, LAMBDA x : x.trip_id = t)]
grouped_routes(table) ==
    [name \in {table[n].route_short_name : n \in DOMAIN table} |->
        GroupSlice(table, name)]

\* ---- properties of the service window ----

\* The first Monday on or after today's date, as a day number.
FirstMonday == CHOOSE d \in today[1]..(today[1] + 6) : d % 7 = 0
KeptServices == {c.service_id : c \in calendar_df}
\* The trips whose segments the route groups of the returned table yield.
TripsWithSegments ==
    LET groups == grouped_routes(stop_times_df)
    IN UNION {{r.trip_id : r \in Range(process_route_to_parquet(name, groups[name]).records)} :
                 name \in DOMAIN groups}

\* C3: once valid_gtfs_data has returned, with M the first Monday on or after
\* today (today itself on a Monday), a calendar entry is kept iff its start_date
\* is <= M+6 and its end_date is >= M; and a service whose range ends before M
\* has no trip, no per-trip row, no stop-time row and no segment.
C3_WindowFilter ==
    pc = "valid" =>
        /\ today[1] % 7 = 0 => FirstMonday = today[1]
        /\ \A s \in DOMAIN calendar :
              s \in KeptServices <=>
                  /\ calendar[s].start_date <= FirstMonday + 6
                  /\ calendar[s].end_date >= FirstMonday
        /\ \A s \in DOMAIN calendar :
              calendar[s].end_date < FirstMonday =>
                  /\ \A t \in trips_df : t.service_id # s
                  /\ \A r \in routes_df : r.service_id # s
                  /\ \A n \in DOMAIN stop_times_df : stop_times_df[n].service_id # s
                  /\ \A t \in TripsTxt :
                        t.service_id = s => t.trip_id \notin TripsWithSegments

\* The run starts on a day that is not a Monday, after midnight; service S1 ends
\* the day before the window and is gone; service S2 ends on the window's first
\* day and is kept, with its stop-time rows and segments.
C3_Witness ==
    /\ pc = "valid"
    /\ today[1] % 7 # 0 /\ today[2] # 0
    /\ calendar["S1"].end_date = FirstMonday - 1
    /\ calendar["S2"].end_date = FirstMonday
    /\ KeptServices = {"S2"}
    /\ TripsWithSegments = {2}
    /\ Len(stop_times_df) = 3

\* The OR over a route short name's trips of one day flag.
RunsOn(name, d) ==
    \E r \in routes_df : r.route_short_name = name /\ r.days[d] = 1

\* C4: once valid_gtfs_data has returned, every route short name that runs on at
\* least one of Mon..Fri or at least one of Sat, Sun (in the OR of its trips' day
\* vectors) has the Route Weekly Status weekday = (some Mon..Fri day is set),
\* weekend = (Sat or Sun is set); and every kept trip is in the per-trip table.
C4_StatusIsAnyDay ==
    pc = "valid" =>
        /\ \A name \in {r.route_short_name : r \in routes_df} :
              LET wd == IF \E d \in 1..5 : RunsOn(name, d) THEN 1 ELSE 0
                  we == IF \E d \in 6..7 : RunsOn(name, d) THEN 1 ELSE 0
              IN (wd = 1 \/ we = 1) =>
                     [route_short_name |-> name, weekday |-> wd, weekend |-> we]
                         \in routes_weekly_status_df
        /\ {r.trip_id : r \in routes_df} = {t.trip_id : t \in trips_df}

\* The short names of the routes with a trip of a kept service, and whether the
\* OR of a short name's trips' day vectors has no day set, which leaves both
\* flags of its Route Weekly Status false.
JoinedRouteNames == {routes[t.route_id] : t \in trips_df}
BothFlagsFalse(name) ==
    \A t \in trips_df : routes[t.route_id] = name => \A d \in 1..7 : t.days[d] = 0

\* C11: once valid_gtfs_data has returned, a route short name whose Route Weekly
\* Status has both flags false has no row in the per-trip table and no row in
\* the returned stop-time table (so no route group, segment or output row).
C11_UnqualifiedRouteExcluded ==
    pc = "valid" =>
        \A name \in JoinedRouteNames :
            BothFlagsFalse(name) =>
                /\ \A r \in routes_df : r.route_short_name # name
                /\ \A n \in DOMAIN stop_times_df :
                      stop_times_df[n].route_short_name # name

(***************************************************************************)
(* The run: the __main__ block                                             *)
(***************************************************************************)

\* num_workers = min(cpu_count() - 2, len(args_list))
worker_count(n_cpu, n_args) == Min(n_cpu - 2, n_args)

\* fetch_suburb_data(): the locality polygons, a missing locality name filled
\* with 'not found'. Polygon L2 has no name in the shapefile.
SuburbShapefile ==
    {[loc_code |-> "L1", locality |-> "Alpha"],
     [loc_code |-> "L2", locality |-> NaN]}
fetch_suburb_data ==
    {[loc_code |-> g.loc_code,
      locality |-> IF g.locality = NaN THEN "not found" ELSE g.locality] :
        g \in SuburbShapefile}

\* stops_with_suburbs(): gpd.sjoin(stops, suburbs, how="left", predicate='within'),
\* one row per stop; a stop inside no polygon gets NaN in both joined columns.
StopIds == {"A", "B", "C"}
stops_with_suburbs(within) ==
    {[stop_id |-> st,
      loc_code |-> IF within[st] = None THEN NaN ELSE within[st],
      locality |-> IF within[st] = None THEN NaN
                   ELSE (CHOOSE g \in fetch_suburb_data :
                             g.loc_code = within[st]).locality] :
        st \in StopIds}

\* The two left merges of df_final with stops, on from_stop_id and on to_stop_id.
\* stops holds every stop once, so every segment row is kept once.
MergeLocalities(segments, stops) ==
    {[route_type |-> sg.route_type, route_short_name |-> sg.route_short_name,
      trip_id |-> sg.trip_id, days |-> sg.days,
      weekday |-> sg.weekday, weekend |-> sg.weekend,
      from_stop_id |-> sg.from_stop_id, to_stop_id |-> sg.to_stop_id,
      from_loc_code |-> f.loc_code, from_locality |-> f.locality,
      to_loc_code |-> t.loc_code, to_locality |-> t.locality] :
        <<sg, f, t>> \in {x \in segments \X stops \X stops :
                             /\ x[2].stop_id = x[1].from_stop_id
                             /\ x[3].stop_id = x[1].to_stop_id}}

\* groupby(...) leaves out the rows with a missing value in a key column
\* (dropna=True is the default). The only key columns that can hold NaN are the
\* four locality columns.
DropNaKeys(rows) ==
    {r \in rows : /\ r.from_loc_code # NaN /\ r.to_loc_code # NaN
                  /\ r.from_locality # NaN /\ r.to_locality # NaN}

\* The first pass: one row per (route_type, route_short_name, locality pair,
\* weekday, weekend, day flags) with number_of_trips = trip_id nunique.
KeyB(r) ==
    [route_type |-> r.route_type, route_short_name |-> r.route_short_name,
     from_loc_code |-> r.from_loc_code, to_loc_code |-> r.to_loc_code,
     from_locality |-> r.from_locality, to_locality |-> r.to_locality,
     weekday |-> r.weekday, weekend |-> r.weekend, days |-> r.days]
PassB(rows) ==
    {[key |-> k,
      number_of_trips |-> Cardinality({r.trip_id : r \in {x \in rows : KeyB(x) = k}})] :
        k \in {KeyB(r) : r \in DropNaKeys(rows)}}

\* Twice the median of the number_of_trips of a non-empty set of rows (twice, to
\* stay in the integers: the median of an even number of counts may end in .5).
RECURSIVE SortedTrips(_)
SortedTrips(rows) ==
    IF rows = {} THEN <<>>
    ELSE LET m == CHOOSE r \in rows :
                      \A x \in rows : r.number_of_trips <= x.number_of_trips
         IN <<m.number_of_trips>> \o SortedTrips(rows \ {m})
TwiceMedianTrips(rows) ==
    LET srt == SortedTrips(rows)
        n == Len(srt)
    IN IF n % 2 = 1 THEN 2 * srt[(n + 1) \div 2]
       ELSE srt[n \div 2] + srt[n \div 2 + 1]

\* The second pass: the day flags leave the key; number_of_trips is the median
\* of the first pass's counts (kept doubled).
KeyC(b) ==
    [route_type |-> b.key.route_type, route_short_name |-> b.key.route_short_name,
     from_loc_code |-> b.key.from_loc_code, to_loc_code |-> b.key.to_loc_code,
     from_locality |-> b.key.from_locality, to_locality |-> b.key.to_locality,
     weekday |-> b.key.weekday, weekend |-> b.key.weekend]
PassC(brows) ==
    {[key |-> k,
      twice_number_of_trips |-> TwiceMedianTrips({b \in brows : KeyC(b) = k})] :
        k \in {KeyC(b) : b \in brows}}

\* The third pass: the route leaves the key; number_of_routes is the number of
\* distinct route short names and number_of_trips_per_day the floored sum of the
\* second pass's medians.
KeyD(c) ==
    [route_type |-> c.key.route_type,
     from_loc_code |-> c.key.from_loc_code, to_loc_code |-> c.key.to_loc_code,
     from_locality |-> c.key.from_locality, to_locality |-> c.key.to_locality,
     weekday |-> c.key.weekday, weekend |-> c.key.weekend]
RECURSIVE SumTwice(_)
SumTwice(crows) ==
    IF crows = {} THEN 0
    ELSE LET c == CHOOSE x \in crows : TRUE
         IN c.twice_number_of_trips + SumTwice(crows \ {c})
PassD(crows) ==
    {[route_type |-> k.route_type,
      from_loc_code |-> k.from_loc_code, to_loc_code |-> k.to_loc_code,
      from_locality |-> k.from_locality, to_locality |-> k.to_locality,
      weekday |-> k.weekday, weekend |-> k.weekend,
      number_of_routes |->
          Cardinality({c.key.route_short_name : c \in {x \in crows : KeyD(x) = k}}),
      number_of_trips_per_day |-> SumTwice({x \in crows : KeyD(x) = k}) \div 2] :
        k \in {KeyD(c) : c \in crows}}

\* The report as it would be without the filter of line 281.
KeepAllPairs(report) == report
\* df_final[df_final['from_loc_code'] != df_final['to_loc_code']]; a missing
\* value differs from everything, itself included.
DropSameLocality(report) ==
    {r \in report : \/ r.from_loc_code = NaN \/ r.to_loc_code = NaN
                    \/ r.from_loc_code # r.to_loc_code}

\* Lines 218-281: the report built from the loaded segments. The travel-time
\* columns are aggregated values, not keys: they decide no row's presence and
\* are not carried.
Report(segments, within) ==
    DropSameLocality(
        PassD(PassC(PassB(MergeLocalities(segments, stops_with_suburbs(within))))))

\* ---- the tables and machines explored ----

\* A route short name has one trip, calling at the stops of one of these
\* patterns ten minutes apart; route i's trip is trip i.
RouteNames == <<"R1", "R2", "R3", "R4">>
StopPatterns == {<<"A">>, <<"A", "B", "C">>}
PatternRows(i, pat) ==
    [n \in 1..Len(pat) |->
        [trip_id |-> i, route_short_name |-> RouteNames[i],
         stop_id |-> pat[n], stop_sequence |-> n,
         arrival_time |-> <<8, 10 * (n - 1), 0>>,
         departure_time |-> <<8, 10 * (n - 1), 0>>,
         pickup_type |-> 0, drop_off_type |-> 0, route_type |-> 3,
         days |-> WeekdaysOnly, weekday |-> 1, weekend |-> 0]]
RECURSIVE TableFrom(_, _)
TableFrom(choice, i) ==
    IF i > MaxRoutes THEN <<>>
    ELSE (IF i \in DOMAIN choice THEN PatternRows(i, choice[i]) ELSE <<>>)
         \o TableFrom(choice, i + 1)

InitMain ==
    /\ pc = "start"
    /\ cpu \in 1..MaxCpu
    /\ \E rs \in SUBSET (1..MaxRoutes) :
          \E choice \in [rs -> StopPatterns] : stop_times_df = TableFrom(choice, 1)
    /\ stop_suburb \in [StopIds -> {"L1", "L2", None}]
    /\ args_list = <<>> /\ num_workers = 0
    /\ pending = {} /\ running = {} /\ parquet_files = <<>> /\ files = <<>>
    /\ df_final = {} /\ csv_written = FALSE /\ cleanup_i = 0 /\ error = "none"
    /\ today = <<0, 0>> /\ calendar = <<>> /\ routes = <<>>
    /\ calendar_df = {} /\ trips_df = {} /\ routes_df = {}
    /\ routes_weekly_status_df = {}
    /\ SegIdle

\* Lines 199-210: the output directory emptied, the table grouped by route short
\* name, one task per group, and the pool size computed.
Start ==
    /\ pc = "start"
    /\ files' = <<>>
    /\ args_list' = grouped_routes(stop_times_df)
    /\ num_workers' = worker_count(cpu, Cardinality(DOMAIN args_list'))
    /\ pending' = DOMAIN args_list'
    /\ pc' = "pool"
    /\ UNCHANGED <<segVars, calVars, cpu, stop_suburb, running, parquet_files,
                   df_final, csv_written, cleanup_i, error>>

\* Line 212: Pool(processes=num_workers) raises ValueError("Number of processes
\* must be at least 1") when num_workers < 1.
CreatePool ==
    /\ pc = "pool"
    /\ IF num_workers < 1
       THEN pc' = "failed" /\ error' = "ValueError"
       ELSE pc' = "map" /\ error' = error
    /\ UNCHANGED <<segVars, calVars, cpu, args_list, stop_suburb, num_workers,
                   pending, running, parquet_files, files, df_final, csv_written,
                   cleanup_i>>

\* Line 213: an idle worker process takes the task of route group r.
TaskStart(r) ==
    /\ pc = "map"
    /\ r \in pending
    /\ Cardinality(running) < num_workers
    /\ pending' = pending \ {r}
    /\ running' = running \cup {r}
    /\ UNCHANGED <<pc, segVars, calVars, cpu, args_list, stop_suburb, num_workers,
                   parquet_files, files, df_final, csv_written, cleanup_i, error>>

\* Line 213: the worker of route group r finishes process_route_wrapper: its
\* spill file is on disk when it wrote one, and imap_unordered yields its result,
\* which the list takes in completion order.
TaskFinish(r) ==
    /\ pc = "map"
    /\ r \in running
    /\ LET result == process_route_to_parquet(r, args_list[r])
       IN /\ files' = to_parquet(files, result)
          /\ parquet_files' = Append(parquet_files, result.ret)
    /\ running' = running \ {r}
    /\ UNCHANGED <<pc, segVars, calVars, cpu, args_list, stop_suburb, num_workers,
                   pending, df_final, csv_written, cleanup_i, error>>

\* Line 215: [pd.read_parquet(pf) for pf in parquet_files if pf and
\* os.path.exists(pf)].
df_list(results, dir) ==
    LET kept == SelectSeq(results, LAMBDA pf : pf # None /\ pf \in DOMAIN dir)
    IN [n \in DOMAIN kept |-> dir[kept[n]]]

\* Lines 215-216, once every task has returned: the spill files are read and
\* concatenated; pd.concat raises ValueError("No objects to concatenate") on an
\* empty list.
Load ==
    /\ pc = "map"
    /\ pending = {} /\ running = {}
    /\ LET dfs == df_list(parquet_files, files)
       IN IF dfs = <<>>
          THEN pc' = "failed" /\ error' = "ValueError" /\ df_final' = df_final
          ELSE /\ pc' = "loaded" /\ error' = error
               /\ df_final' = UNION {Range(dfs[n]) : n \in DOMAIN dfs}
    /\ UNCHANGED <<segVars, calVars, cpu, args_list, stop_suburb, num_workers,
                   pending, running, parquet_files, files, csv_written, cleanup_i>>

\* Lines 218-283: the localities joined, the three passes, the post-processing
\* and the report written to transit_summary.csv.
Aggregate ==
    /\ pc = "loaded"
    /\ df_final' = Report(df_final, stop_suburb)
    /\ csv_written' = TRUE
    /\ cleanup_i' = 1
    /\ pc' = "cleanup"
    /\ UNCHANGED <<segVars, calVars, cpu, args_list, stop_suburb, num_workers,
                   pending, running, parquet_files, files, error>>

\* os.remove(path)
Remove(dir, path) == [x \in DOMAIN dir \ {path} |-> dir[x]]

\* Lines 286-288, one turn of the loop: os.path.exists(pf) raises TypeError when
\* pf is None; an existing file is removed.
CleanupStep ==
    /\ pc = "cleanup"
    /\ cleanup_i <= Len(parquet_files)
    /\ LET pf == parquet_files[cleanup_i]
       IN IF pf = None
          THEN /\ pc' = "failed" /\ error' = "TypeError"
               /\ UNCHANGED <<files, cleanup_i>>
          ELSE /\ files' = IF pf \in DOMAIN files THEN Remove(files, pf) ELSE files
               /\ cleanup_i' = cleanup_i + 1
               /\ UNCHANGED <<pc, error>>
    /\ UNCHANGED <<segVars, calVars, cpu, args_list, stop_suburb, num_workers,
                   pending, running, parquet_files, df_final, csv_written>>

\* Line 289: the loop is over and the run ends normally.
Finish ==
    /\ pc = "cleanup"
    /\ cleanup_i > Len(parquet_files)
    /\ pc' = "done"
    /\ UNCHANGED <<segVars, calVars, mainVars>>

Next ==
    \/ Start
    \/ CreatePool
    \/ \E r \in DOMAIN args_list : TaskStart(r)
    \/ \E r \in DOMAIN args_list : TaskFinish(r)
    \/ Load
    \/ Aggregate
    \/ CleanupStep
    \/ Finish
Init == InitMain
Spec == Init /\ [][Next]_vars

\* ---- properties of the run ----

\* The segments the workers spilled; every spill file is still on disk when the
\* report has just been written and the cleanup loop has not started.
ReportJustWritten == pc = "cleanup" /\ cleanup_i = 1
SpilledSegments == UNION {Range(files[f]) : f \in DOMAIN files}
Unmatched(st) == stop_suburb[st] = None

\* C5: when the report has been written, every segment with exactly one stop
\* that has no locality match has a report row for its locality pair, with
\* locality name "not found" on the unmatched side and the matched stop's
\* locality code on the other.
C5_UnmatchedStopReported ==
    ReportJustWritten =>
        \A sg \in SpilledSegments :
            /\ (Unmatched(sg.from_stop_id) /\ ~Unmatched(sg.to_stop_id)) =>
                   \E r \in df_final :
                       /\ r.from_locality = "not found"
                       /\ r.to_loc_code = stop_suburb[sg.to_stop_id]
            /\ (~Unmatched(sg.from_stop_id) /\ Unmatched(sg.to_stop_id)) =>
                   \E r \in df_final :
                       /\ r.to_locality = "not found"
                       /\ r.from_loc_code = stop_suburb[sg.from_stop_id]

\* C6: a run whose stop-time/route table is empty (no service active in the
\* target week) never fails.
C6_EmptyWeekDoesNotFail == stop_times_df = <<>> => pc # "failed"

\* C7: a run in which one worker returned the absent marker (its route group
\* produced no segment) and another returned a spill file never fails.
C7_EmptyGroupDoesNotFail ==
    (/\ \E n \in DOMAIN parquet_files : parquet_files[n] = None
     /\ \E n \in DOMAIN parquet_files : parquet_files[n] # None)
        => pc # "failed"

\* C8: when a run in which the report was written has ended, no spill file is
\* left in the output directory.
C8_NoSpillFileLeft ==
    (csv_written /\ pc \in {"done", "failed"}) => DOMAIN files = {}

\* C9: once computed for a run with at least one route group, the pool size is
\* max(1, cpu_count() - 2) capped at the number of route groups, and so is at
\* least 1.
C9_PoolSize ==
    LET groups == Cardinality(DOMAIN args_list)
    IN (pc # "start" /\ groups >= 1) =>
           /\ num_workers = Min(Max(1, cpu - 2), groups)
           /\ num_workers >= 1

\* C10: every row of the written report has from_loc_code different from
\* to_loc_code.
C10_NoIntraLocalityRow ==
    csv_written => \A r \in df_final : r.from_loc_code # r.to_loc_code

\* A report with rows has just been written from segments of which one joins two
\* stops of the same locality.
C10_Witness ==
    /\ ReportJustWritten
    /\ df_final # {}
    /\ \E sg \in SpilledSegments :
          /\ ~Unmatched(sg.from_stop_id)
          /\ stop_suburb[sg.from_stop_id] = stop_suburb[sg.to_stop_id]
====
